---- MODULE Spec2Model ----
(***************************************************************************)
(* Verification model of star_frame's instruction lifecycle                *)
(* (Instruction::process_from_raw) and of star_frame_spl's associated      *)
(* token account initialisation (AssociatedTokenAccount::init_account,     *)
(* validate_ata, AssociatedToken::find_address_with_bump).                 *)
(***************************************************************************)
EXTENDS Integers, Sequences, FiniteSets, TLC

\* ------------------------------------------------------------------------
\* Bounds of the model
\* ------------------------------------------------------------------------
MaxDataLen == 3       \* longest instruction_data slice handed to a call
MaxAccounts == 3      \* longest account list handed to a call
MaxCalls == 2         \* init_account / validate_ata calls in one behaviour

\* ------------------------------------------------------------------------
\* Values
\* ------------------------------------------------------------------------
ByteVals == {0, 1, 255}

\* The instruction type T of the model: a Pod struct #[repr(C)] { amount: u16 }
SizeOfT == 2

\* The two return types of the model: () and u16
ReturnSizes == {0, 2}

StageOrder ==
    << "decode_data", "split_to_args", "decode_accounts", "validate_accounts",
       "process", "cleanup_accounts", "return_data" >>

ArgViews == {"decode", "validate", "run", "cleanup"}

VARIABLES
    pc,               \* position inside process_from_raw
    instruction_data, \* the &[u8] argument
    accounts,         \* the AccountInfo list (external account state)
    entry_accounts,   \* the account state when the call was entered
    cursor,           \* how many entries the `accounts` slice has given up
    data,             \* Option<T>: the decoded instruction
    args,             \* the IxArgs views not yet moved into their stage
    account_set,      \* the decoded account set (indices into accounts)
    ret,              \* the value process returned
    return_size,      \* size_of::<T::ReturnType>()
    return_data,      \* the set_return_data calls made so far
    result,           \* what process_from_raw returned
    trace             \* the stages entered, in order

lifecycle_vars ==
    << pc, instruction_data, accounts, entry_accounts, cursor, data, args,
       account_set, ret, return_size, return_data, result, trace >>

VARIABLES
    token_account,    \* the account behind `self`: pubkey, owner, lamports, is_writable
    funder,           \* the CanFundRent funder
    ctx,              \* the Context caches: funder and rent
    last,             \* the last associated-token call: its arguments, pre-state, outcome
    ncalls            \* the calls made so far

ata_vars == << token_account, funder, ctx, last, ncalls >>

VARIABLES
    raw,              \* the instruction data handed to InstructionSet::dispatch
    invoked,          \* the process_from_raw calls dispatch made: member and data
    dispatch_result   \* what dispatch returned

dispatch_vars == << raw, invoked, dispatch_result >>

\* ------------------------------------------------------------------------
\* Results
\* ------------------------------------------------------------------------
Pending == [status |-> "Pending", stage |-> "", code |-> "", expected |-> 0, got |-> 0]
Ok == [status |-> "Ok", stage |-> "", code |-> "", expected |-> 0, got |-> 0]
Err(stage, code, expected, got) ==
    [status |-> "Err", stage |-> stage, code |-> code, expected |-> expected, got |-> got]

\* ------------------------------------------------------------------------
\* bytemuck
\* ------------------------------------------------------------------------
\* bytemuck::from_bytes::<T>: the little-endian u16 at bytes 1..2.  It panics
\* on a slice of another size; <<>> stands for "no value".
from_bytes(b) ==
    IF Len(b) = SizeOfT THEN << [amount |-> b[1] + 256 * b[2]] >> ELSE << >>

\* bytemuck::bytes_of on a value of `size` bytes (0 for (), 2 for u16)
bytes_of(v, size) ==
    IF size = 0 THEN << >> ELSE << v % 256, (v \div 256) % 256 >>

\* ensure!(instruction_data.len() == expected_size, ...)
SizeCheckAtLeast(len) == len >= SizeOfT
SizeCheckAtMost(len) == len <= SizeOfT
SizeCheck(len) == len = SizeOfT

\* ------------------------------------------------------------------------
\* The account set of the model: (authority: Signer, target: Mut<Account>)
\* ------------------------------------------------------------------------
Arity == 2

\* AccountSetDecode::decode_accounts: needs Arity entries, consumes them
decode_accounts(accts, cur) ==
    IF Len(accts) - cur < Arity
    THEN [res |-> Err("decode_accounts", "AccountArityError", Arity, Len(accts) - cur),
          set |-> << >>, cursor |-> cur]
    ELSE [res |-> Ok, set |-> << cur + 1, cur + 2 >>, cursor |-> cur + Arity]

\* AccountSetValidate::validate_accounts: first violated constraint
validate_accounts(accts, set) ==
    IF ~accts[set[1]].is_signer
    THEN Err("validate_accounts", "MissingSigner", 0, 0)
    ELSE IF ~accts[set[2]].is_writable
         THEN Err("validate_accounts", "NotWritable", 0, 0)
         ELSE Ok

\* StarFrameInstruction::process: the business logic credits the target
run_effect(accts, set, d) ==
    [accts EXCEPT ![set[2]].data = @ + 1 + d.amount]

\* ------------------------------------------------------------------------
\* Instruction::process_from_raw, one action per step
\* ------------------------------------------------------------------------
Fail(e) ==
    /\ result' = e
    /\ pc' = "done"

\* Step 1: ensure!(len == size_of::<T>()) and bytemuck::from_bytes
DecodeData ==
    /\ pc = "start"
    /\ trace' = Append(trace, "decode_data")
    /\ IF SizeCheck(Len(instruction_data))
       THEN /\ data' = from_bytes(instruction_data)
            /\ pc' = "split"
            /\ UNCHANGED result
       ELSE /\ Fail(Err("decode_data", "InvalidInstructionDataSize",
                        SizeOfT, Len(instruction_data)))
            /\ UNCHANGED data
    /\ UNCHANGED << instruction_data, accounts, entry_accounts, cursor, args,
                    account_set, ret, return_size, return_data, ata_vars, dispatch_vars >>

\* Step 2: T::split_to_args(&mut data); IxArgs holds the four views at once
SplitToArgsDecodeOnly ==
    /\ pc = "split"
    /\ trace' = Append(trace, "split_to_args")
    /\ args' = {"decode"}
    /\ pc' = "decode_accounts"
    /\ UNCHANGED << instruction_data, accounts, entry_accounts, cursor, data,
                    account_set, ret, return_size, return_data, result, ata_vars, dispatch_vars >>

SplitToArgs ==
    /\ pc = "split"
    /\ trace' = Append(trace, "split_to_args")
    /\ args' = ArgViews
    /\ pc' = "decode_accounts"
    /\ UNCHANGED << instruction_data, accounts, entry_accounts, cursor, data,
                    account_set, ret, return_size, return_data, result, ata_vars, dispatch_vars >>

\* Step 3: Accounts::decode_accounts(&mut accounts, decode, &mut ctx)?
DecodeAccounts ==
    /\ pc = "decode_accounts"
    /\ trace' = Append(trace, "decode_accounts")
    /\ args' = args \ {"decode"}
    /\ LET d == decode_accounts(accounts, cursor) IN
       /\ cursor' = d.cursor
       /\ account_set' = d.set
       /\ IF d.res.status = "Ok"
          THEN pc' = "validate" /\ UNCHANGED result
          ELSE Fail(d.res)
    /\ UNCHANGED << instruction_data, accounts, entry_accounts, data, ret,
                    return_size, return_data, ata_vars, dispatch_vars >>

\* Step 4: account_set.validate_accounts(validate, &mut ctx)?
ValidateAccountsNoAbort ==
    /\ pc = "validate"
    /\ trace' = Append(trace, "validate_accounts")
    /\ args' = args \ {"validate"}
    /\ pc' = "process"
    /\ UNCHANGED << instruction_data, accounts, entry_accounts, cursor, data,
                    account_set, ret, return_size, return_data, result, ata_vars, dispatch_vars >>

ValidateAccounts ==
    /\ pc = "validate"
    /\ trace' = Append(trace, "validate_accounts")
    /\ args' = args \ {"validate"}
    /\ LET v == validate_accounts(accounts, account_set) IN
       IF v.status = "Ok"
       THEN pc' = "process" /\ UNCHANGED result
       ELSE Fail(v)
    /\ UNCHANGED << instruction_data, accounts, entry_accounts, cursor, data,
                    account_set, ret, return_size, return_data, ata_vars, dispatch_vars >>

\* Step 5: T::process(&mut account_set, run, &mut ctx)?
ProcessSkipCleanup ==
    /\ pc = "process"
    /\ trace' = Append(trace, "process")
    /\ args' = args \ {"run"}
    /\ accounts' = run_effect(accounts, account_set, data[1])
    /\ \E ok \in BOOLEAN :
         IF ok
         THEN /\ ret' = data[1].amount
              /\ pc' = "return"
              /\ UNCHANGED result
         ELSE /\ Fail(Err("process", "ExecutionError", 0, 0))
              /\ UNCHANGED ret
    /\ UNCHANGED << instruction_data, entry_accounts, cursor, data, account_set,
                    return_size, return_data, ata_vars, dispatch_vars >>

Process ==
    /\ pc = "process"
    /\ trace' = Append(trace, "process")
    /\ args' = args \ {"run"}
    /\ accounts' = run_effect(accounts, account_set, data[1])
    /\ \E ok \in BOOLEAN :
         IF ok
         THEN /\ ret' = data[1].amount
              /\ pc' = "cleanup"
              /\ UNCHANGED result
         ELSE /\ Fail(Err("process", "ExecutionError", 0, 0))
              /\ UNCHANGED ret
    /\ UNCHANGED << instruction_data, entry_accounts, cursor, data, account_set,
                    return_size, return_data, ata_vars, dispatch_vars >>

\* Step 6: account_set.cleanup_accounts(cleanup, &mut ctx)?
CleanupAccountsRollback ==
    /\ pc = "cleanup"
    /\ trace' = Append(trace, "cleanup_accounts")
    /\ args' = args \ {"cleanup"}
    /\ \E ok \in BOOLEAN :
         IF ok
         THEN pc' = "return" /\ UNCHANGED << result, accounts >>
         ELSE /\ Fail(Err("cleanup_accounts", "CleanupError", 0, 0))
              /\ accounts' = entry_accounts
    /\ UNCHANGED << instruction_data, entry_accounts, cursor, data,
                    account_set, ret, return_size, return_data, ata_vars, dispatch_vars >>

CleanupAccountsPublish ==
    /\ pc = "cleanup"
    /\ trace' = Append(trace, "cleanup_accounts")
    /\ args' = args \ {"cleanup"}
    /\ \E ok \in BOOLEAN :
         IF ok
         THEN pc' = "return" /\ UNCHANGED << result, return_data >>
         ELSE /\ Fail(Err("cleanup_accounts", "CleanupError", 0, 0))
              /\ return_data' = Append(return_data, bytes_of(ret, return_size))
    /\ UNCHANGED << instruction_data, accounts, entry_accounts, cursor, data,
                    account_set, ret, return_size, ata_vars, dispatch_vars >>

CleanupAccounts ==
    /\ pc = "cleanup"
    /\ trace' = Append(trace, "cleanup_accounts")
    /\ args' = args \ {"cleanup"}
    /\ \E ok \in BOOLEAN :
         IF ok
         THEN pc' = "return" /\ UNCHANGED result
         ELSE Fail(Err("cleanup_accounts", "CleanupError", 0, 0))
    /\ UNCHANGED << instruction_data, accounts, entry_accounts, cursor, data,
                    account_set, ret, return_size, return_data, ata_vars, dispatch_vars >>

\* Step 7: if size_of::<T::ReturnType>() > 0 { set_return_data(bytes_of(&ret)) }; Ok(())
SetReturnData ==
    /\ pc = "return"
    /\ trace' = Append(trace, "return_data")
    /\ IF return_size > 0
       THEN return_data' = Append(return_data, bytes_of(ret, return_size))
       ELSE UNCHANGED return_data
    /\ Fail(Ok)
    /\ UNCHANGED << instruction_data, accounts, entry_accounts, cursor, data,
                    args, account_set, ret, return_size, ata_vars, dispatch_vars >>

\* ========================================================================
\* star_frame_spl::associated_token
\* ========================================================================
\* Program ids (Pubkeys are byte strings; two bytes stand for the thirty-two)
SystemID == << 2, 0 >>
TokenID == << 2, 1 >>
AssociatedTokenID == << 2, 2 >>
OtherProgramID == << 2, 3 >>

Wallets == { << 0, 0 >>, << 0, 1 >> }
Mints == { << 1, 0 >>, << 1, 1 >> }
FunderKey == << 3, 0 >>
ForeignKey == << 3, 1 >>

\* TokenAccount::LEN
TokenAccountLEN == 165

RECURSIVE Flatten(_)
Flatten(seqs) == IF seqs = << >> THEN << >> ELSE Head(seqs) \o Flatten(Tail(seqs))

RECURSIVE SumBytes(_)
SumBytes(b) == IF b = << >> THEN 0 ELSE Head(b) + SumBytes(Tail(b))

\* Pubkey::create_program_address: the hash of seeds, bump and program id, as
\* the collision-free term seeds ++ bump ++ program id
create_program_address(seeds, bump, program_id) ==
    Flatten(seeds) \o << bump >> \o program_id

\* whether a hash is a point of the curve (then it is no program address)
IsOnCurve(h) == SumBytes(h) % 2 = 1

\* Pubkey::find_program_address: the first bump, from 255 down, whose hash is
\* off the curve
RECURSIVE find_program_address_from(_, _, _)
find_program_address_from(seeds, program_id, bump) ==
    LET h == create_program_address(seeds, bump, program_id) IN
    IF ~IsOnCurve(h) \/ bump = 0
    THEN << h, bump >>
    ELSE find_program_address_from(seeds, program_id, bump - 1)

find_program_address(seeds, program_id) ==
    find_program_address_from(seeds, program_id, 255)

\* AssociatedToken::find_address_with_bump
find_address_with_bump_no_mint(wallet, mint) ==
    find_program_address(<< wallet, TokenID >>, AssociatedTokenID)

find_address_with_bump(wallet, mint) ==
    find_program_address(<< wallet, TokenID, mint >>, AssociatedTokenID)

\* AssociatedToken::find_address
find_address(wallet, mint) == find_address_with_bump(wallet, mint)[1]

\* AssociatedTokenAccount::validate_ata
validate_ata(self, wallet, mint) ==
    IF self.pubkey # find_address(wallet, mint)
    THEN Err("validate_ata", "AddressMismatch", 0, 0)
    ELSE Ok

\* TokenAccount's validate, as init_account calls it: the owner check
validate(self) ==
    IF self.owner # TokenID
    THEN Err("validate", "OwnerMismatch", 0, 0)
    ELSE Ok

\* Rent::minimum_balance with the platform's default rent parameters
minimum_balance(len) == (128 + len) * 3480 * 2

\* u64::saturating_sub
saturating_sub(a, b) == IF a >= b THEN a - b ELSE 0

\* rent.minimum_balance(TokenAccount::LEN).saturating_sub(current_lamports)
required_rent_full(current_lamports) == minimum_balance(TokenAccountLEN)

required_rent(current_lamports) ==
    saturating_sub(minimum_balance(TokenAccountLEN), current_lamports)

\* What one call did: result, account and funder afterwards, the fund_rent
\* amounts it asked for and the nested calls it issued
Out(res, acct, fnd, funded, cpis) ==
    [res |-> res, account |-> acct, funder |-> fnd, funded |-> funded, cpis |-> cpis]

\* CanFundRent::fund_rent: the balance transfer from the funder
fund_rent(acct, fnd, amount) ==
    IF fnd.lamports < amount
    THEN Out(Err("fund_rent", "InsufficientFunds", amount, fnd.lamports),
             acct, fnd, << amount >>, << >>)
    ELSE Out(Ok, [acct EXCEPT !.lamports = @ + amount],
             [fnd EXCEPT !.lamports = @ - amount], << amount >>, << >>)

\* if !funder.can_create_account() { ... fund_rent ... }
fund_if_cannot_create_skip(acct, fnd, rent_available) ==
    Out(Ok, acct, fnd, << >>, << >>)

fund_if_cannot_create(acct, fnd, rent_available) ==
    IF fnd.can_create_account
    THEN Out(Ok, acct, fnd, << >>, << >>)
    ELSE IF ~rent_available
         THEN Out(Err("get_rent", "UnsupportedSysvar", 0, 0), acct, fnd, << >>, << >>)
         ELSE LET required == required_rent(acct.lamports) IN
              IF required > 0
              THEN fund_rent(acct, fnd, required)
              ELSE Out(Ok, acct, fnd, << >>, << >>)

\* The nested call: AssociatedToken::cpi(Create, CreateCpiAccounts {..}, None)
\* CreateAccounts: the fields of the target's account set, in declaration order
CreateAccountsShape ==
    << "funder", "token_account", "wallet", "mint", "system_program", "token_program" >>

\* CreateCpiAccounts { .. }: the named fields laid out in the order of the shape
CreateCpiAccounts(fields) ==
    [i \in 1..Len(CreateAccountsShape) |-> fields[CreateAccountsShape[i]]]

CreateCpiSwapped(acct, fnd, wallet, mint) ==
    [program |-> AssociatedTokenID,
     instruction |-> "Create",
     accounts |-> CreateCpiAccounts(
         [funder |-> fnd.pubkey, token_account |-> wallet, wallet |-> acct.pubkey,
          mint |-> mint, system_program |-> SystemID, token_program |-> TokenID]),
     signer_seeds |-> fnd.signer_seeds]

CreateCpi(acct, fnd, wallet, mint) ==
    [program |-> AssociatedTokenID,
     instruction |-> "Create",
     accounts |-> CreateCpiAccounts(
         [funder |-> fnd.pubkey, token_account |-> acct.pubkey, wallet |-> wallet,
          mint |-> mint, system_program |-> SystemID, token_program |-> TokenID]),
     signer_seeds |-> fnd.signer_seeds]

\* The called program's Create: creates the token account at the canonical
\* address, paying any rent shortfall out of the funder
invoke_create(acct, fnd, cpi) ==
    LET ta == cpi.accounts[2]
        shortfall == saturating_sub(minimum_balance(TokenAccountLEN), acct.lamports)
    IN  IF acct.owner # SystemID
        THEN Out(Err("invoke_signed", "IllegalOwner", 0, 0), acct, fnd, << >>, << cpi >>)
        ELSE IF ta # find_address(cpi.accounts[3], cpi.accounts[4])
        THEN Out(Err("invoke_signed", "InvalidSeeds", 0, 0), acct, fnd, << >>, << cpi >>)
        ELSE IF fnd.lamports < shortfall
        THEN Out(Err("invoke_signed", "InsufficientFunds", shortfall, fnd.lamports),
                 acct, fnd, << >>, << cpi >>)
        ELSE Out(Ok,
                 [acct EXCEPT !.owner = TokenID, !.lamports = @ + shortfall],
                 [fnd EXCEPT !.lamports = @ - shortfall], << >>, << cpi >>)

\* The creation path of init_account, after the create-if-needed shortcut.
\* The source writes `if matches!(account_seeds, Some(_)) { Err(InvalidSeeds) }`
\* with no `return`; it is read as the early return it is meant to be.
create_path_checks_last(acct, fnd, rent_available, seeds_given, wallet, mint) ==
    LET f == fund_if_cannot_create(acct, fnd, rent_available) IN
    IF f.res.status # "Ok" THEN f
    ELSE LET c == invoke_create(f.account, f.funder,
                                CreateCpi(f.account, f.funder, wallet, mint))
         IN  IF seeds_given
             THEN Out(Err("init_account", "InvalidSeeds", 0, 0),
                      c.account, c.funder, f.funded, c.cpis)
             ELSE IF ~f.account.is_writable
             THEN Out(Err("check_writable", "NotWritable", 0, 0),
                      c.account, c.funder, f.funded, c.cpis)
             ELSE Out(c.res, c.account, c.funder, f.funded, c.cpis)

create_path(acct, fnd, rent_available, seeds_given, wallet, mint) ==
    LET f == fund_if_cannot_create(acct, fnd, rent_available) IN
    IF f.res.status # "Ok" THEN f
    ELSE IF seeds_given
    THEN Out(Err("init_account", "InvalidSeeds", 0, 0), f.account, f.funder, f.funded, << >>)
    ELSE IF ~f.account.is_writable
    THEN Out(Err("check_writable", "NotWritable", 0, 0), f.account, f.funder, f.funded, << >>)
    ELSE LET c == invoke_create(f.account, f.funder,
                                CreateCpi(f.account, f.funder, wallet, mint))
         IN  Out(c.res, c.account, c.funder, f.funded, c.cpis)

\* CanInitAccount<(InitAta, &Funder)>::init_account::<IF_NEEDED>
init_account_no_shortcut(if_needed, acct, fnd, rent_available, seeds_given, wallet, mint) ==
    create_path(acct, fnd, rent_available, seeds_given, wallet, mint)

init_account(if_needed, acct, fnd, rent_available, seeds_given, wallet, mint) ==
    IF if_needed /\ acct.owner = TokenID
    THEN LET v == validate(acct) IN
         IF v.status # "Ok"
         THEN Out(v, acct, fnd, << >>, << >>)
         ELSE Out(validate_ata(acct, wallet, mint), acct, fnd, << >>, << >>)
    ELSE create_path(acct, fnd, rent_available, seeds_given, wallet, mint)

Call(op, if_needed, seeds_given, wallet, mint, out) ==
    /\ last' = [op |-> op, if_needed |-> if_needed, seeds_given |-> seeds_given,
                wallet |-> wallet, mint |-> mint, pre |-> token_account,
                pre_funder |-> funder, res |-> out.res, funded |-> out.funded,
                cpis |-> out.cpis]
    /\ token_account' = out.account
    /\ funder' = out.funder
    /\ ncalls' = ncalls + 1
    /\ UNCHANGED ctx

\* init_account with the funder passed by the caller
InitAccountWithFunder ==
    /\ ncalls < MaxCalls
    /\ \E if_needed \in BOOLEAN, seeds_given \in BOOLEAN, w \in Wallets, m \in Mints :
         Call("init_account", if_needed, seeds_given, w, m,
              init_account(if_needed, token_account, funder, ctx.rent_available,
                           seeds_given, w, m))
    /\ UNCHANGED << lifecycle_vars, dispatch_vars >>

\* CanInitAccount<InitAta>::init_account: the funder comes from ctx.get_funder()
InitAccountFromCtx ==
    /\ ncalls < MaxCalls
    /\ \E if_needed \in BOOLEAN, seeds_given \in BOOLEAN, w \in Wallets, m \in Mints :
         Call("init_account_ctx", if_needed, seeds_given, w, m,
              IF ~ctx.funder_cached
              THEN Out(Err("get_funder", "EmpthFunderCache", 0, 0),
                       token_account, funder, << >>, << >>)
              ELSE init_account(if_needed, token_account, funder, ctx.rent_available,
                                seeds_given, w, m))
    /\ UNCHANGED << lifecycle_vars, dispatch_vars >>

\* validate_ata called by account validation
ValidateAta ==
    /\ ncalls < MaxCalls
    /\ \E w \in Wallets, m \in Mints :
         Call("validate_ata", FALSE, FALSE, w, m,
              Out(validate_ata(token_account, w, m), token_account, funder, << >>, << >>))
    /\ UNCHANGED << lifecycle_vars, dispatch_vars >>

\* ========================================================================
\* InstructionSet::dispatch for AssociatedTokenInstructionSet
\* ========================================================================
\* #[repr(u8)]: the discriminant is one byte
DiscriminantSize == 1

\* the members of the enum, in declaration order
InstructionSetMembers == << "Create", "CreateIdempotent", "RecoverNested" >>

\* InstructionDiscriminant::DISCRIMINANT under #[ix_set(use_repr)]: the enum's
\* own repr(u8) values
DiscriminantClash(ix) ==
    CASE ix = "Create" -> 0
      [] ix = "CreateIdempotent" -> 0
      [] ix = "RecoverNested" -> 2

Discriminant(ix) ==
    CASE ix = "Create" -> 0
      [] ix = "CreateIdempotent" -> 1
      [] ix = "RecoverNested" -> 2

\* size_of::<T>() of the members: unit structs
size_of_ix(ix) == 0

\* the match arms whose discriminant equals the tag, in declaration order
matching_arms(tag) ==
    { i \in DOMAIN InstructionSetMembers : Discriminant(InstructionSetMembers[i]) = tag }

\* process_from_raw of a member made by empty_star_frame_instruction!: the
\* size check of step 1, the account stages, and process returning Ok(())
member_process_from_raw(ix, rest, accounts_ok) ==
    IF Len(rest) # size_of_ix(ix)
    THEN Err("decode_data", "InvalidInstructionDataSize", size_of_ix(ix), Len(rest))
    ELSE IF ~accounts_ok
         THEN Err("decode_accounts", "AccountArityError", 0, 0)
         ELSE Ok

\* InstructionSet::dispatch: read the tag, match it, strip it, forward the rest
Dispatch ==
    /\ dispatch_result = Pending
    /\ IF Len(raw) < DiscriminantSize
       THEN /\ dispatch_result' = Err("dispatch", "InvalidInstructionData",
                                      DiscriminantSize, Len(raw))
            /\ UNCHANGED invoked
       ELSE LET tag == raw[1]
                rest == SubSeq(raw, DiscriminantSize + 1, Len(raw))
                arms == matching_arms(tag)
            IN  IF arms = {}
                THEN /\ dispatch_result' = Err("dispatch", "UnknownDiscriminant", 0, tag)
                     /\ UNCHANGED invoked
                ELSE LET first == CHOOSE i \in arms : \A j \in arms : i <= j
                         ix == InstructionSetMembers[first]
                     IN  /\ invoked' = Append(invoked, [ix |-> ix, data |-> rest])
                         /\ \E accounts_ok \in BOOLEAN :
                              dispatch_result' = member_process_from_raw(ix, rest, accounts_ok)
    /\ UNCHANGED << raw, lifecycle_vars, ata_vars >>

vars == << lifecycle_vars, ata_vars, dispatch_vars >>

Addresses ==
    { find_address(<< 0, 0 >>, << 1, 0 >>), find_address(<< 0, 0 >>, << 1, 1 >>), ForeignKey }

LamportChoices ==
    { 0, minimum_balance(TokenAccountLEN) - 1, minimum_balance(TokenAccountLEN),
      minimum_balance(TokenAccountLEN) + 1 }

\* a signing wallet, a seeded system account, a program-owned account
Funders ==
    { [pubkey |-> FunderKey, can_create_account |-> k[1], signer_seeds |-> k[2],
       lamports |-> l] :
        k \in { << TRUE, << >> >>, << TRUE, << << 7 >> >> >>, << FALSE, << >> >> },
        l \in { 0, 2 * minimum_balance(TokenAccountLEN) } }

NoCall ==
    [op |-> "none", if_needed |-> FALSE, seeds_given |-> FALSE,
     wallet |-> << >>, mint |-> << >>,
     pre |-> [pubkey |-> << >>, owner |-> << >>, lamports |-> 0, is_writable |-> FALSE],
     pre_funder |-> [pubkey |-> << >>, can_create_account |-> FALSE, lamports |-> 0,
                     signer_seeds |-> << >>],
     res |-> Pending, funded |-> << >>, cpis |-> << >>]

\* the associated-token state while the instruction lifecycle is explored
AtaIdle ==
    /\ token_account = [pubkey |-> ForeignKey, owner |-> SystemID, lamports |-> 0,
                        is_writable |-> FALSE]
    /\ funder = [pubkey |-> FunderKey, can_create_account |-> TRUE, lamports |-> 0,
                 signer_seeds |-> << >>]
    /\ ctx = [funder_cached |-> FALSE, rent_available |-> FALSE]
    /\ last = NoCall
    /\ ncalls = 0

\* the instruction lifecycle while the associated-token calls are explored
LifecycleIdle ==
    /\ pc = "idle"
    /\ instruction_data = << >>
    /\ accounts = << >>
    /\ entry_accounts = << >>
    /\ cursor = 0
    /\ data = << >>
    /\ args = {}
    /\ account_set = << >>
    /\ ret = 0
    /\ return_size = 0
    /\ return_data = << >>
    /\ result = Pending
    /\ trace = << >>

\* dispatch while the other operations are explored
DispatchIdle ==
    /\ raw = << >>
    /\ invoked = << >>
    /\ dispatch_result = Pending

InitAta ==
    /\ LifecycleIdle
    /\ DispatchIdle
    /\ token_account \in [pubkey : Addresses, owner : {SystemID, TokenID, OtherProgramID},
                          lamports : LamportChoices, is_writable : BOOLEAN]
    /\ funder \in Funders
    /\ ctx \in [funder_cached : BOOLEAN, rent_available : BOOLEAN]
    /\ last = NoCall
    /\ ncalls = 0

NextAta ==
    \/ InitAccountWithFunder
    \/ InitAccountFromCtx
    \/ ValidateAta

SpecAta == InitAta /\ [][NextAta]_vars


AccountInfos == [is_signer : BOOLEAN, is_writable : BOOLEAN, data : {0}]

Payloads == UNION { [1..n -> ByteVals] : n \in 0..MaxDataLen }

AccountLists == UNION { [1..n -> AccountInfos] : n \in 0..MaxAccounts }

Init ==
    /\ pc = "start"
    /\ instruction_data \in Payloads
    /\ accounts \in AccountLists
    /\ entry_accounts = accounts
    /\ cursor = 0
    /\ data = << >>
    /\ args = {}
    /\ account_set = << >>
    /\ ret = 0
    /\ return_size \in ReturnSizes
    /\ return_data = << >>
    /\ result = Pending
    /\ trace = << >>
    /\ AtaIdle
    /\ DispatchIdle

Next ==
    \/ DecodeData
    \/ SplitToArgs
    \/ DecodeAccounts
    \/ ValidateAccounts
    \/ Process
    \/ CleanupAccounts
    \/ SetReturnData

Spec == Init /\ [][Next]_vars

DispatchTags == ByteVals \cup {2}

RawPayloads ==
    { << >> } \cup { << t >> \o rest : t \in DispatchTags, rest \in Payloads }

InitDispatch ==
    /\ LifecycleIdle
    /\ AtaIdle
    /\ raw \in RawPayloads
    /\ invoked = << >>
    /\ dispatch_result = Pending

NextDispatch ==
    \/ Dispatch

SpecDispatch == InitDispatch /\ [][NextDispatch]_vars

\* ========================================================================
\* Properties
\* ========================================================================
Range(f) == { f[i] : i \in DOMAIN f }

IsPrefix(s, t) == Len(s) <= Len(t) /\ \A i \in 1..Len(s) : s[i] = t[i]

RECURSIVE SumSeq(_)
SumSeq(q) == IF q = << >> THEN 0 ELSE Head(q) + SumSeq(Tail(q))

RentMinimum == minimum_balance(TokenAccountLEN)

InitOps == {"init_account", "init_account_ctx"}

\* the last call was init_account and did reach the funder-taking implementation
RanInitAccount ==
    /\ last.op \in InitOps
    /\ last.res.code # "EmpthFunderCache"

\* C1: a call that returns Ok has entered the seven stages exactly once each,
\* in the documented order; at every moment the stages entered so far are a
\* prefix of that order, so none is repeated or re-entered.
C1_StagesOnceInOrder ==
    /\ IsPrefix(trace, StageOrder)
    /\ (pc = "done" /\ result.status = "Ok") => trace = StageOrder

C1_Witness ==
    /\ pc = "done"
    /\ result.status = "Ok"
    /\ Len(trace) = 7

\* C2: once a stage has failed the call is over: the error returned is that
\* stage's, it is the last stage entered, and nothing changes afterwards; the
\* business logic is never entered with a signer-required account that did
\* not sign, and a validation failure leaves cleanup unentered and the
\* accounts untouched.
C2_FailureStopsTheCall ==
    /\ result.status = "Err" =>
         /\ pc = "done"
         /\ trace # << >>
         /\ trace[Len(trace)] = result.stage
         /\ IsPrefix(trace, StageOrder)
    /\ "process" \in Range(trace) =>
         /\ entry_accounts[account_set[1]].is_signer
         /\ entry_accounts[account_set[2]].is_writable
    /\ (result.status = "Err" /\ result.stage = "validate_accounts") =>
         /\ "process" \notin Range(trace)
         /\ "cleanup_accounts" \notin Range(trace)
         /\ accounts = entry_accounts
         /\ return_data = << >>

C2_Witness ==
    /\ pc = "done"
    /\ result.code = "MissingSigner"
    /\ trace = SubSeq(StageOrder, 1, 4)

\* C3: a payload shorter than size_of::<T>() fails in step 1 with the size
\* error carrying expected and actual length, before any account is consumed,
\* validated or run, and without a decoded value.
C3_ShortPayloadFails ==
    (pc # "start" /\ Len(instruction_data) < SizeOfT) =>
        /\ pc = "done"
        /\ result = Err("decode_data", "InvalidInstructionDataSize", SizeOfT,
                        Len(instruction_data))
        /\ trace = << "decode_data" >>
        /\ data = << >>
        /\ cursor = 0
        /\ account_set = << >>
        /\ accounts = entry_accounts

C3_Witness ==
    /\ pc = "done"
    /\ Len(instruction_data) = SizeOfT - 1
    /\ Len(accounts) >= Arity
    /\ result.code = "InvalidInstructionDataSize"

\* C4 as claimed: every payload of at least size_of::<T>() bytes is decoded.
C4_Original ==
    (pc # "start" /\ Len(instruction_data) >= SizeOfT) =>
        /\ data # << >>
        /\ result.code # "InvalidInstructionDataSize"

\* C4 as amended: a payload is decoded if and only if it has exactly
\* size_of::<T>() bytes, and the decoded value is those bytes, bit for bit;
\* any other length, longer ones included, is the size error.
C4_ExactSizeDecodes ==
    pc # "start" =>
        /\ (data # << >>) <=> (Len(instruction_data) = SizeOfT)
        /\ data # << >> =>
             /\ bytes_of(data[1].amount, SizeOfT) = instruction_data
             /\ result.code # "InvalidInstructionDataSize"
        /\ data = << >> =>
             result = Err("decode_data", "InvalidInstructionDataSize", SizeOfT,
                          Len(instruction_data))

C4_Witness ==
    /\ pc = "split"
    /\ instruction_data = << 1, 255 >>
    /\ data = << [amount |-> 65281] >>

\* C5: return data is published exactly when the call returns Ok and the
\* return type is not empty, and it is the raw bytes of what process returned.
C5_ReturnDataIff ==
    /\ return_data # << >> =>
         /\ pc = "done"
         /\ result.status = "Ok"
         /\ return_size > 0
         /\ return_data = << bytes_of(ret, return_size) >>
         /\ Len(return_data[1]) = return_size
    /\ (pc = "done" /\ result.status = "Ok" /\ return_size > 0) =>
         return_data # << >>

C5_Witness ==
    /\ pc = "done"
    /\ result.status = "Ok"
    /\ return_data = << << 255, 1 >> >>

\* C6: when process succeeded and cleanup failed, the call returns the
\* cleanup error and the accounts are exactly as process left them.
C6_CleanupFailureKeepsMutations ==
    (result.status = "Err" /\ result.stage = "cleanup_accounts") =>
        /\ pc = "done"
        /\ "process" \in Range(trace)
        /\ accounts = run_effect(entry_accounts, account_set, data[1])
        /\ accounts # entry_accounts

C6_Witness ==
    /\ pc = "done"
    /\ result.code = "CleanupError"
    /\ accounts # entry_accounts

\* C7: create-if-needed init_account on an account the Token program owns at
\* its canonical associated-token address returns Ok on every call, asks the
\* funder for nothing and issues no nested call.
C7_IdempotentInit ==
    ( /\ RanInitAccount
      /\ last.if_needed
      /\ last.pre.owner = TokenID
      /\ last.pre.pubkey = find_address(last.wallet, last.mint) ) =>
        /\ last.res = Ok
        /\ last.funded = << >>
        /\ last.cpis = << >>
        /\ token_account = last.pre
        /\ funder = last.pre_funder

C7_Witness ==
    /\ RanInitAccount
    /\ ncalls >= 2
    /\ last.if_needed
    /\ last.pre.owner = TokenID
    /\ last.pre.pubkey = find_address(last.wallet, last.mint)
    /\ last.res = Ok

\* C8: init_account asks fund_rent at most once, for exactly
\* max(0, rent minimum - balance), which is then positive; never when the
\* balance already meets the minimum; and the balance never goes down.
C8_FundsOnlyTheShortfall ==
    last.op \in InitOps =>
        /\ Len(last.funded) <= 1
        /\ \A i \in DOMAIN last.funded :
             /\ last.funded[i] > 0
             /\ last.funded[i] =
                  (IF RentMinimum > last.pre.lamports
                   THEN RentMinimum - last.pre.lamports ELSE 0)
        /\ last.pre.lamports >= RentMinimum => last.funded = << >>
        /\ token_account.lamports >= last.pre.lamports

C8_Witness ==
    /\ last.op \in InitOps
    /\ last.funded = << 1 >>
    /\ token_account.lamports = RentMinimum

\* C9 as claimed: a funder that cannot create accounts is never the funder of
\* a nested Create call.
C9_Original ==
    (last.op \in InitOps /\ ~last.pre_funder.can_create_account) => last.cpis = << >>

\* C9 as amended: a funder that cannot create accounts is the only one asked
\* to fund_rent, and when init_account passes it as the funder of the nested
\* Create call the balance already meets the rent minimum.
C9_CannotCreateFunderPrefunds ==
    last.op \in InitOps =>
        /\ last.pre_funder.can_create_account => last.funded = << >>
        /\ (~last.pre_funder.can_create_account /\ last.cpis # << >>) =>
             /\ last.cpis[1].accounts[1] = last.pre_funder.pubkey
             /\ last.pre.lamports + SumSeq(last.funded) >= RentMinimum
             /\ funder.lamports = last.pre_funder.lamports - SumSeq(last.funded)

C9_Witness ==
    /\ last.op \in InitOps
    /\ ~last.pre_funder.can_create_account
    /\ last.funded # << >>
    /\ last.cpis # << >>
    /\ last.res = Ok

\* addr is the program address of seeds (wallet, Token id, mint) under the
\* AssociatedToken id: the hash with the highest bump that is off the curve
IsCanonicalAta(addr, wallet, mint) ==
    \E b \in 0..255 :
        /\ addr = create_program_address(<< wallet, TokenID, mint >>, b, AssociatedTokenID)
        /\ ~IsOnCurve(addr)
        /\ \A c \in (b + 1)..255 :
             IsOnCurve(create_program_address(<< wallet, TokenID, mint >>, c,
                                              AssociatedTokenID))

\* the seeds (w1, m1) and (w2, m2) differ in exactly one byte
OneByteApart(w1, m1, w2, m2) ==
    Cardinality({ i \in 1..Len(w1 \o m1) : (w1 \o m1)[i] # (w2 \o m2)[i] }) = 1

\* C10: validate_ata returns Ok exactly when the account's address is the
\* canonical associated-token address of (wallet, mint); otherwise, also for
\* the address of seeds one byte away, AddressMismatch; it changes nothing.
C10_ValidateAta ==
    last.op = "validate_ata" =>
        /\ (last.res = Ok) <=> IsCanonicalAta(last.pre.pubkey, last.wallet, last.mint)
        /\ last.res # Ok => last.res = Err("validate_ata", "AddressMismatch", 0, 0)
        /\ \A w \in Wallets, m \in Mints :
             ( /\ OneByteApart(w, m, last.wallet, last.mint)
               /\ IsCanonicalAta(last.pre.pubkey, w, m) ) =>
                 last.res.code = "AddressMismatch"
        /\ token_account = last.pre
        /\ funder = last.pre_funder

C10_Witness ==
    /\ last.op = "validate_ata"
    /\ last.res.code = "AddressMismatch"
    /\ \E w \in Wallets, m \in Mints :
         /\ OneByteApart(w, m, last.wallet, last.mint)
         /\ IsCanonicalAta(last.pre.pubkey, w, m)

\* the stage each IxArgs view is moved into
ViewStage(v) ==
    CASE v = "decode" -> "decode_accounts"
      [] v = "validate" -> "validate_accounts"
      [] v = "run" -> "process"
      [] v = "cleanup" -> "cleanup_accounts"

\* C11 as claimed: no two stages' argument views are live at the same time.
C11_Original == Cardinality(args) <= 1

\* C11 as amended: split_to_args produces the four views together and they are
\* held side by side; each view is given up exactly when its own stage is
\* entered, so a view is held from step 2 until its stage and never after.
C11_ViewsHeldUntilTheirStage ==
    /\ "split_to_args" \notin Range(trace) => args = {}
    /\ "split_to_args" \in Range(trace) =>
         args = { v \in ArgViews : ViewStage(v) \notin Range(trace) }
    /\ data # << >> =>
         bytes_of(data[1].amount, SizeOfT) = instruction_data

C11_Witness ==
    /\ pc = "process"
    /\ args = {"run", "cleanup"}
    /\ trace = SubSeq(StageOrder, 1, 4)

AssignedTags == { Discriminant(InstructionSetMembers[i]) : i \in DOMAIN InstructionSetMembers }

\* C12: the members' tags are pairwise distinct; a tag assigned to no member
\* makes dispatch fail with UnknownDiscriminant carrying the tag, with no
\* process_from_raw invoked; an assigned tag invokes exactly the one member
\* that carries it, with the tag stripped from the data.
C12_Dispatch ==
    /\ \A i, j \in DOMAIN InstructionSetMembers :
         i # j => Discriminant(InstructionSetMembers[i]) # Discriminant(InstructionSetMembers[j])
    /\ dispatch_result = Pending => invoked = << >>
    /\ (dispatch_result # Pending /\ Len(raw) >= DiscriminantSize) =>
         /\ raw[1] \notin AssignedTags =>
              /\ dispatch_result = Err("dispatch", "UnknownDiscriminant", 0, raw[1])
              /\ invoked = << >>
         /\ raw[1] \in AssignedTags =>
              /\ Len(invoked) = 1
              /\ invoked[1].ix \in Range(InstructionSetMembers)
              /\ Discriminant(invoked[1].ix) = raw[1]
              /\ << raw[1] >> \o invoked[1].data = raw
              /\ dispatch_result.code # "UnknownDiscriminant"
    /\ \A i \in DOMAIN InstructionSetMembers :
         (dispatch_result # Pending /\ Len(raw) >= DiscriminantSize
            /\ raw[1] = i - 1) => invoked[1].ix = InstructionSetMembers[i]

C12_Witness ==
    /\ dispatch_result.code = "UnknownDiscriminant"
    /\ dispatch_result.got = 255
    /\ Len(raw) > DiscriminantSize
    /\ invoked = << >>

\* the account and the funder as they were when the nested call was issued:
\* after the fund_rent transfers of the call
AccountAtCpi == [last.pre EXCEPT !.lamports = @ + SumSeq(last.funded)]
FunderAtCpi == [last.pre_funder EXCEPT !.lamports = @ - SumSeq(last.funded)]

\* C13: init_account issues at most one nested call, Create of the associated
\* token program, with the six accounts in the order of CreateAccounts
\* (funder, token_account, wallet, mint, system_program, token_program), the
\* account being initialised second; the nested call's outcome, a failure
\* included, is init_account's result as it stands.
C13_NestedCreate ==
    last.op \in InitOps =>
        /\ Len(last.cpis) <= 1
        /\ \A i \in DOMAIN last.cpis :
             /\ last.cpis[i].program = AssociatedTokenID
             /\ last.cpis[i].instruction = "Create"
             /\ Len(last.cpis[i].accounts) = 6
             /\ last.cpis[i].accounts =
                  << last.pre_funder.pubkey, last.pre.pubkey, last.wallet, last.mint,
                     SystemID, TokenID >>
        /\ last.cpis # << >> =>
             last.res = invoke_create(AccountAtCpi, FunderAtCpi, last.cpis[1]).res
        /\ last.res.stage = "invoke_signed" => last.cpis # << >>

C13_Witness ==
    /\ last.op \in InitOps
    /\ last.cpis # << >>
    /\ last.cpis[1].accounts[2] = last.pre.pubkey
    /\ last.res.status = "Err"
    /\ last.res.stage = "invoke_signed"

\* init_account failed on its own seed check or on its writability check
FailedOwnCheck ==
    /\ last.op \in InitOps
    /\ last.res \in { Err("init_account", "InvalidSeeds", 0, 0),
                      Err("check_writable", "NotWritable", 0, 0) }

====
